---- MODULE Spec2Model ----
(***************************************************************************)
(* A model of src/main.py, the xbr-video-upscaler frame pipeline.          *)
(*                                                                         *)
(* One behaviour is a sequence of runs of the script over one file system. *)
(* The staging directory ('.temp_frames') and the output files are the     *)
(* only state a run leaves to the next one.                                *)
(*                                                                         *)
(* Threads: the main thread (module body, lines 168-200), the SIGINT       *)
(* handler (lines 14-18), which Python runs on the main thread between two *)
(* of its steps, and one ThreadPoolExecutor work item per frame            *)
(* (upscale_frame, lines 71-104).                                          *)
(*                                                                         *)
(* Environment assumptions, stated once:                                   *)
(*  - the external resizer reads frame_i when it is launched and writes    *)
(*    frame_i_up when it ends with status 0; it ends non-zero when its     *)
(*    input is missing or the directory is gone, and it may end non-zero   *)
(*    at any time for its own reasons; a failing resizer writes nothing;   *)
(*  - os.scandir lists the directory as it is when the loop starts, in     *)
(*    the directory's order, which is the same for every scan (file name   *)
(*    order here);                                                         *)
(*  - POSIX file semantics: a file in use can be removed;                  *)
(*  - at most one SIGINT is delivered per run.                             *)
(***************************************************************************)
EXTENDS Integers, FiniteSets, Sequences, TLC

\* Bounds of the model.
MaxFrames == 2
MaxWorkers == 2
MaxRuns == 2

Frames == 0 .. (MaxFrames - 1)

\* f"frame_{i:05}.png" and f"frame_{i:05}_up.png": a staged file is named by
\* its rank in file-name order (frame_00000.png < frame_00000_up.png <
\* frame_00001.png < ...).
RawFile(i) == 2 * i
UpFile(i) == 2 * i + 1

Min(S) == CHOOSE x \in S : \A y \in S : x <= y

VARIABLES
    run,            \* number of the current run of the script
    dirExists,      \* '.temp_frames' exists
    files,          \* the files in '.temp_frames'
    outputs,        \* existing output files: 0 is the base name, n is "(n)"
    videoExists,    \* os.path.isfile(args.input)
    frameCount,     \* frames the input video decodes to
    pc,             \* position of the main thread
    eventDefined,   \* line 22 has run: exit_event is bound
    tempDirDefined, \* line 183 has run: temp_dir is bound
    exit_event,     \* threading.Event: set or not
    count,          \* extract_frames: count
    total_frames,   \* total_frames (line 187)
    out_filename,   \* the counter no_overwrite settled on (0: base name)
    task,           \* state of the work item of each frame
    wcl,            \* cleanup() frame of each work item
    mcl,            \* cleanup() frame of the main thread
    hcl,            \* cleanup() frame of the signal handler
    hpc,            \* position of the signal handler
    exc,            \* exception the handler left to the main thread
    exitCode,       \* process exit status (-1 while running)
    exitWhy,        \* which exit path ended the process
    \* history of the current run
    failedAny,      \* an external resizer ended non-zero
    sigMidDispatch, \* SIGINT arrived with work items queued or in flight
    released,       \* cleanup() has been called
    removedOnce,    \* a cleanup() has removed the directory
    ffmpegCalls,    \* times the multiplexer was invoked
    outputWritten,  \* the multiplexer wrote (part of) an output file
    \* configuration and probed metadata of the current run
    scale_pct,      \* config['output']['scale_factor'], a percentage
    magnification_factor, \* config['upscaler']['magnification_factor']
    resolution,     \* get_resolution(args.input): <<width, height>>
    fps,            \* get_fps(input_video); -1 before it is probed
    cmd,            \* the resizer command of each launched work item
    ffmpegFailed    \* ffmpeg ended with a non-zero status

fsVars == <<dirExists, files, outputs>>
inputVars == <<videoExists, frameCount>>
mainVars == <<pc, eventDefined, tempDirDefined, count, total_frames, out_filename, mcl>>
workerVars == <<task, wcl>>
handlerVars == <<hpc, hcl, exc, exit_event>>
exitVars == <<exitCode, exitWhy>>
histVars == <<failedAny, sigMidDispatch, released, removedOnce, ffmpegCalls, outputWritten>>
cfgVars == <<scale_pct, magnification_factor, resolution>>
encVars == <<fps, ffmpegFailed>>
vars == <<run, fsVars, inputVars, mainVars, workerVars, handlerVars, exitVars, histVars,
          cfgVars, cmd, encVars>>

----------------------------------------------------------------------------
\* cleanup(temp_directory), lines 24-27, as a frame [ph, todo].
\*   ph = "scan":  about to call os.scandir
\*   ph = "rm":    in the loop; todo holds the entries not yet removed
\*   ph = "ret":   returned
\*   ph = "raised": an OSError left the function
IdleFrame == [ph |-> "idle", todo |-> {}]
ScanFrame == [ph |-> "scan", todo |-> {}]

\* cleanup without its last line (os.rmdir): the files are removed and the
\* directory stays.
CleanupStepNoRmdir(c) ==
    IF c.ph = "scan"
    THEN IF dirExists
         THEN [c |-> [ph |-> "rm", todo |-> files], files |-> files, dir |-> dirExists]
         ELSE [c |-> [ph |-> "raised", todo |-> {}], files |-> files, dir |-> dirExists]
    ELSE IF c.todo # {}
    THEN LET f == Min(c.todo) IN
         IF dirExists /\ f \in files
         THEN [c |-> [ph |-> "rm", todo |-> c.todo \ {f}],
               files |-> files \ {f}, dir |-> dirExists]
         ELSE [c |-> [ph |-> "raised", todo |-> {}], files |-> files, dir |-> dirExists]
    ELSE [c |-> [ph |-> "ret", todo |-> {}], files |-> files, dir |-> dirExists]

\* One step of cleanup on frame c: the frame, the files and the directory
\* after it.
CleanupStep(c) ==
    IF c.ph = "scan"
    THEN IF dirExists
         THEN [c |-> [ph |-> "rm", todo |-> files], files |-> files, dir |-> dirExists]
         ELSE [c |-> [ph |-> "raised", todo |-> {}], files |-> files, dir |-> dirExists]
    ELSE IF c.todo # {}
    THEN LET f == Min(c.todo) IN
         IF dirExists /\ f \in files
         THEN [c |-> [ph |-> "rm", todo |-> c.todo \ {f}],
               files |-> files \ {f}, dir |-> dirExists]
         ELSE [c |-> [ph |-> "raised", todo |-> {}], files |-> files, dir |-> dirExists]
    ELSE IF dirExists /\ files = {}
         THEN [c |-> [ph |-> "ret", todo |-> {}], files |-> files, dir |-> FALSE]
         ELSE [c |-> [ph |-> "raised", todo |-> {}], files |-> files, dir |-> dirExists]

----------------------------------------------------------------------------
\* The state a run starts in: line 20 has installed the handler, nothing
\* else has run.  v, n: whether the input video exists and its frame count.
RunStart(v, n) ==
    /\ videoExists = v
    /\ frameCount = n
    /\ pc = "registered"
    /\ eventDefined = FALSE
    /\ tempDirDefined = FALSE
    /\ exit_event = FALSE
    /\ count = 0
    /\ total_frames = 0
    /\ out_filename = 0
    /\ task = [i \in Frames |-> "none"]
    /\ wcl = [i \in Frames |-> IdleFrame]
    /\ mcl = IdleFrame
    /\ hcl = IdleFrame
    /\ hpc = "idle"
    /\ exc = "none"
    /\ exitCode = -1
    /\ exitWhy = "running"
    /\ failedAny = FALSE
    /\ sigMidDispatch = FALSE
    /\ released = FALSE
    /\ removedOnce = FALSE
    /\ ffmpegCalls = 0
    /\ outputWritten = FALSE
    /\ scale_pct = 0
    /\ magnification_factor = 0
    /\ resolution = <<0, 0>>
    /\ fps = -1
    /\ cmd = [i \in Frames |-> <<>>]
    /\ ffmpegFailed = FALSE

\* The inputs of a run: a missing video decodes to no frame.
Inputs == {<<v, n>> \in BOOLEAN \X (0 .. MaxFrames) : v \/ n = 0}

Init ==
    /\ run = 1
    /\ dirExists = FALSE
    /\ files = {}
    /\ outputs = {}
    /\ \E in \in Inputs : RunStart(in[1], in[2])

\* The main thread takes a step only while no handler runs on its stack.
MainFree == hpc \in {"idle", "done"}

\* A work item is over when its future is done.
Finished(i) == task[i] \in {"none", "ok", "exited", "crashed"}

\* sys.exit(code), or an uncaught exception, on the main thread outside the
\* executor's with-block.
Exit(code, why) ==
    /\ pc' = "exit"
    /\ exitCode' = code
    /\ exitWhy' = why

\* Line 22: exit_event = threading.Event()
DefineEvent ==
    /\ MainFree /\ pc = "registered"
    /\ eventDefined' = TRUE
    /\ pc' = "deps"
    /\ UNCHANGED <<run, cfgVars, cmd, encVars,
                   fsVars, inputVars, tempDirDefined, count, total_frames,
                   out_filename, mcl, workerVars, handlerVars, exitVars, histVars>>

\* check_dependencies, lines 29-38: the resizer and ffmpeg are installed, or
\* the process exits with status 1.
check_dependencies ==
    /\ MainFree /\ pc = "deps"
    /\ \/ /\ pc' = "assign"
          /\ UNCHANGED exitVars
       \/ Exit(1, "deps")
    /\ UNCHANGED <<run, cfgVars, cmd, encVars,
                   fsVars, inputVars, eventDefined, tempDirDefined, count,
                   total_frames, out_filename, mcl, workerVars, handlerVars, histVars>>

\* Line 183: temp_dir = '.temp_frames'
AssignTempDir ==
    /\ MainFree /\ pc = "assign"
    /\ tempDirDefined' = TRUE
    /\ pc' = "mkdir"
    /\ UNCHANGED <<run, cfgVars, cmd, encVars,
                   fsVars, inputVars, eventDefined, count, total_frames,
                   out_filename, mcl, workerVars, handlerVars, exitVars, histVars>>

\* Line 184: os.makedirs(temp_dir, exist_ok=True) keeps what is there.
MakeDirs ==
    /\ MainFree /\ pc = "mkdir"
    /\ dirExists' = TRUE
    /\ pc' = "extract"
    /\ UNCHANGED <<run, cfgVars, cmd, encVars,
                   files, outputs, inputVars, eventDefined, tempDirDefined,
                   count, total_frames, out_filename, mcl, workerVars,
                   handlerVars, exitVars, histVars>>

\* extract_frames, lines 57-69, one pass of the loop: the next frame is
\* written, or cv2.imwrite fails and the process exits with status 1, or the
\* video is over and count is returned (line 187).
extract_frames ==
    /\ MainFree /\ pc = "extract"
    /\ IF videoExists /\ count < frameCount
       THEN \/ /\ dirExists
               /\ files' = files \cup {RawFile(count)}
               /\ count' = count + 1
               /\ UNCHANGED <<pc, total_frames, exitVars>>
            \/ /\ Exit(1, "extract")
               /\ UNCHANGED <<files, count, total_frames>>
       ELSE /\ total_frames' = count
            /\ pc' = "config"
            /\ UNCHANGED <<files, count, exitVars>>
    /\ UNCHANGED <<run, cfgVars, cmd, encVars,
                   dirExists, outputs, inputVars, eventDefined, tempDirDefined,
                   out_filename, mcl, workerVars, handlerVars, histVars>>

\* The configurations a run may read: <<scale_factor in percent,
\* magnification_factor>>.  The percentages are multiples of 50, so that
\* float(p) / 100 and its products with the integer sizes are exact.
Configs == {<<200, 2>>, <<150, 2>>, <<300, 3>>}

\* The resolutions get_resolution may report.
Resolutions == {<<3, 5>>}

\* Lines 189-192: scale_factor, magnification_factor and the original
\* resolution are read (algorithm is a fixed string).
ReadConfig ==
    /\ MainFree /\ pc = "config"
    /\ \E c \in Configs :
          /\ scale_pct' = c[1]
          /\ magnification_factor' = c[2]
    /\ \E r \in Resolutions : resolution' = r
    /\ pc' = "submit"
    /\ UNCHANGED <<run, cmd, encVars, fsVars, inputVars, eventDefined, tempDirDefined,
                   count, total_frames, out_filename, mcl, workerVars, handlerVars,
                   exitVars, histVars>>

\* upscale_frames with range(total_frames - 1): the last frame is not
\* submitted.
SubmitShort ==
    /\ MainFree /\ pc = "submit"
    /\ task' = [i \in Frames |-> IF i < total_frames - 1 THEN "queued" ELSE "none"]
    /\ pc' = "wait"
    /\ UNCHANGED <<run, cfgVars, cmd, encVars,
                   fsVars, inputVars, eventDefined, tempDirDefined, count,
                   total_frames, out_filename, mcl, wcl, handlerVars, exitVars, histVars>>

\* upscale_frames, lines 107-108: every frame is submitted to the executor.
Submit ==
    /\ MainFree /\ pc = "submit"
    /\ task' = [i \in Frames |-> IF i < total_frames THEN "queued" ELSE "none"]
    /\ pc' = "wait"
    /\ UNCHANGED <<run, cfgVars, cmd, encVars,
                   fsVars, inputVars, eventDefined, tempDirDefined, count,
                   total_frames, out_filename, mcl, wcl, handlerVars, exitVars, histVars>>

\* upscale_frames returning as soon as one future is done.
WaitDoneFirst ==
    /\ MainFree /\ pc = "wait"
    /\ \E i \in Frames : Finished(i)
    /\ pc' = "naming"
    /\ UNCHANGED <<run, cfgVars, cmd, encVars,
                   fsVars, inputVars, eventDefined, tempDirDefined, count,
                   total_frames, out_filename, mcl, workerVars, handlerVars,
                   exitVars, histVars>>

\* upscale_frames, lines 110-111 and the end of the with-block: as_completed
\* has yielded every future and the executor has shut down.
WaitDone ==
    /\ MainFree /\ pc = "wait"
    /\ \A i \in Frames : Finished(i)
    /\ pc' = "naming"
    /\ UNCHANGED <<run, cfgVars, cmd, encVars,
                   fsVars, inputVars, eventDefined, tempDirDefined, count,
                   total_frames, out_filename, mcl, workerVars, handlerVars,
                   exitVars, histVars>>

\* no_overwrite, lines 158-166: the first name that does not exist among
\* base, base(1), base(2), ...
\* The loop of no_overwrite without its test: the name is returned whether
\* it exists or not.
NoOverwriteUnchecked(name, counter) == name

RECURSIVE NoOverwriteFrom(_, _)
NoOverwriteFrom(name, counter) ==
    IF name \in outputs THEN NoOverwriteFrom(counter, counter + 1) ELSE name

no_overwrite == NoOverwriteFrom(0, 1)

\* Lines 195-196.
Naming ==
    /\ MainFree /\ pc = "naming"
    /\ out_filename' = no_overwrite
    /\ pc' = "encode"
    /\ UNCHANGED <<run, cfgVars, cmd, encVars,
                   fsVars, inputVars, eventDefined, tempDirDefined, count,
                   total_frames, mcl, workerVars, handlerVars, exitVars, histVars>>

\* The frame rates cv2 may report: 0 for a stream it cannot read the rate
\* of, or the rate of the video.
FpsValues == {0, 25}

\* get_fps ending the process with status 0 on a missing input video.
get_fps_exit0 ==
    /\ MainFree /\ pc = "encode"
    /\ IF videoExists
       THEN /\ pc' = "verify"
            /\ \E r \in FpsValues : fps' = r
            /\ UNCHANGED exitVars
       ELSE /\ Exit(0, "no_video")
            /\ UNCHANGED fps
    /\ UNCHANGED <<run, cfgVars, cmd, ffmpegFailed,
                   fsVars, inputVars, eventDefined, tempDirDefined, count,
                   total_frames, out_filename, mcl, workerVars, handlerVars, histVars>>

\* get_fps, lines 40-48, called by encode_video at line 117: a missing input
\* video ends the process with status 1; otherwise the frame rate cv2 reports
\* is returned as it is.
get_fps ==
    /\ MainFree /\ pc = "encode"
    /\ IF videoExists
       THEN /\ pc' = "verify"
            /\ \E r \in FpsValues : fps' = r
            /\ UNCHANGED exitVars
       ELSE /\ Exit(1, "no_video")
            /\ UNCHANGED fps
    /\ UNCHANGED <<run, cfgVars, cmd, ffmpegFailed,
                   fsVars, inputVars, eventDefined, tempDirDefined, count,
                   total_frames, out_filename, mcl, workerVars, handlerVars, histVars>>

\* get_missing_frames with range(total_frames - 1): the last frame is not
\* looked at.
get_missing_frames_short(n) ==
    {i \in 0 .. (n - 2) : ~(dirExists /\ UpFile(i) \in files)}

\* get_missing_frames with range(total_frames + 1): one index too many is
\* looked at.
get_missing_frames_long(n) ==
    {i \in 0 .. n : ~(dirExists /\ UpFile(i) \in files)}

\* get_missing_frames, lines 113-114.
get_missing_frames(n) ==
    {i \in 0 .. (n - 1) : ~(dirExists /\ UpFile(i) \in files)}

\* encode_video, lines 120-128: with a frame missing, cleanup is called (and
\* sys.exit(1) follows it); with none missing the command is built.
Verify ==
    /\ MainFree /\ pc = "verify"
    /\ IF get_missing_frames(total_frames) # {}
       THEN /\ pc' = "verify_cleanup"
            /\ mcl' = ScanFrame
            /\ released' = TRUE
       ELSE /\ pc' = "build"
            /\ UNCHANGED <<mcl, released>>
    /\ UNCHANGED <<run, cfgVars, cmd, encVars,
                   fsVars, inputVars, eventDefined, tempDirDefined, count,
                   total_frames, out_filename, workerVars, handlerVars, exitVars,
                   failedAny, sigMidDispatch, removedOnce, ffmpegCalls, outputWritten>>

\* encode_video, lines 130-147: subprocess.run(ffmpeg_cmd) starts ffmpeg.
InvokeFfmpeg ==
    /\ MainFree /\ pc = "build"
    /\ ffmpegCalls' = ffmpegCalls + 1
    /\ pc' = "ffmpeg"
    /\ UNCHANGED <<run, cfgVars, cmd, encVars,
                   fsVars, inputVars, eventDefined, tempDirDefined, count,
                   total_frames, out_filename, mcl, workerVars, handlerVars, exitVars,
                   failedAny, sigMidDispatch, released, removedOnce, outputWritten>>

\* encode_video with a sys.exit(1) in its except branch: ffmpeg's failure
\* ends the process at once.
FfmpegExitFatal ==
    /\ MainFree /\ pc = "ffmpeg"
    /\ \/ /\ outputs' = outputs \cup {out_filename}
          /\ outputWritten' = TRUE
          /\ pc' = "final_cleanup"
          /\ mcl' = ScanFrame
          /\ released' = TRUE
          /\ UNCHANGED <<ffmpegFailed, exitVars>>
       \/ /\ ffmpegFailed' = TRUE
          /\ Exit(1, "encode")
          /\ UNCHANGED <<outputs, outputWritten, mcl, released>>
    /\ UNCHANGED <<run, cfgVars, cmd, fps,
                   dirExists, files, inputVars, eventDefined, tempDirDefined,
                   count, total_frames, out_filename, workerVars, handlerVars,
                   failedAny, sigMidDispatch, removedOnce, ffmpegCalls>>

\* encode_video, lines 143-156, and line 200: ffmpeg ends with status 0 and
\* the output file is there, or it ends non-zero, which is printed; either
\* way encode_video returns and the final cleanup is called.
FfmpegExit ==
    /\ MainFree /\ pc = "ffmpeg"
    /\ \/ /\ outputs' = outputs \cup {out_filename}
          /\ outputWritten' = TRUE
          /\ UNCHANGED ffmpegFailed
       \/ /\ ffmpegFailed' = TRUE
          /\ UNCHANGED <<outputs, outputWritten>>
    /\ pc' = "final_cleanup"
    /\ mcl' = ScanFrame
    /\ released' = TRUE
    /\ UNCHANGED <<run, cfgVars, cmd, fps,
                   dirExists, files, inputVars, eventDefined, tempDirDefined,
                   count, total_frames, out_filename, workerVars, handlerVars,
                   exitVars, failedAny, sigMidDispatch, removedOnce, ffmpegCalls>>

\* cleanup(temp_dir) on the main thread, one step: called at line 127
\* (followed by sys.exit(1)) or at line 200 (the last statement of the
\* script).  An OSError out of it is uncaught: traceback, status 1.
MainCleanup ==
    /\ MainFree /\ pc \in {"verify_cleanup", "final_cleanup"}
    /\ LET r == CleanupStep(mcl) IN
       /\ files' = r.files
       /\ dirExists' = r.dir
       /\ removedOnce' = (removedOnce \/ r.c.ph = "ret")
       /\ IF r.c.ph = "ret"
          THEN /\ mcl' = IdleFrame
               /\ IF pc = "verify_cleanup"
                  THEN Exit(1, "incomplete")
                  ELSE pc' = "end" /\ UNCHANGED exitVars
          ELSE IF r.c.ph = "raised"
          THEN /\ mcl' = IdleFrame
               /\ Exit(1, "error")
          ELSE /\ mcl' = r.c
               /\ UNCHANGED <<pc, exitVars>>
    /\ UNCHANGED <<run, cfgVars, cmd, encVars,
                   outputs, inputVars, eventDefined, tempDirDefined, count,
                   total_frames, out_filename, workerVars, handlerVars,
                   failedAny, sigMidDispatch, released, ffmpegCalls, outputWritten>>

\* After line 200: the script is over and the interpreter ends the process
\* with status 0.
ScriptEnd ==
    /\ MainFree /\ pc = "end"
    /\ Exit(0, "ok")
    /\ UNCHANGED <<run, cfgVars, cmd, encVars,
                   fsVars, inputVars, eventDefined, tempDirDefined, count,
                   total_frames, out_filename, mcl, workerVars, handlerVars, histVars>>

----------------------------------------------------------------------------
\* The work items the pool's threads are running.
Running == {i \in Frames : task[i] \in {"running", "cleaning"}}

\* upscale_frame, lines 72-73: new_width and new_height, int() of the
\* product with scale_factor = scale_pct / 100.
new_size ==
    <<(resolution[1] * scale_pct) \div 100, (resolution[2] * scale_pct) \div 100>>

\* upscale_frame building the command of line 80 whatever the factors are.
upscale_cmd_always_resize(i) ==
    << [op |-> "/load", arg |-> <<RawFile(i)>>],
       [op |-> "/resize", arg |-> <<"auto", "algorithm", magnification_factor>>],
       [op |-> "/resize", arg |-> <<new_size, "Lanczos">>],
       [op |-> "/save", arg |-> <<UpFile(i)>>] >>

\* upscale_frame, lines 75-82: the command of frame i, as the steps the
\* resizer is given after its path.  The secondary resize is there when
\* scale_factor != float(magnification_factor).
upscale_cmd(i) ==
    IF scale_pct # 100 * magnification_factor
    THEN << [op |-> "/load", arg |-> <<RawFile(i)>>],
            [op |-> "/resize", arg |-> <<"auto", "algorithm", magnification_factor>>],
            [op |-> "/resize", arg |-> <<new_size, "Lanczos">>],
            [op |-> "/save", arg |-> <<UpFile(i)>>] >>
    ELSE << [op |-> "/load", arg |-> <<RawFile(i)>>],
            [op |-> "/resize", arg |-> <<"auto", "algorithm", magnification_factor>>],
            [op |-> "/save", arg |-> <<UpFile(i)>>] >>

\* upscale_frame, lines 71-87: a free worker thread takes the work item and
\* subprocess.run starts the resizer, which loads frame_i.  With frame_i
\* missing the resizer ends non-zero and the handler of lines 92-97 calls
\* cleanup.
Launch(i) ==
    /\ pc \in {"wait", "join"}
    /\ task[i] = "queued"
    /\ Cardinality(Running) < MaxWorkers
    /\ cmd' = [cmd EXCEPT ![i] = upscale_cmd(i)]
    /\ IF dirExists /\ RawFile(i) \in files
       THEN /\ task' = [task EXCEPT ![i] = "running"]
            /\ UNCHANGED <<wcl, failedAny, released>>
       ELSE /\ task' = [task EXCEPT ![i] = "cleaning"]
            /\ wcl' = [wcl EXCEPT ![i] = ScanFrame]
            /\ failedAny' = TRUE
            /\ released' = TRUE
    /\ UNCHANGED <<run, cfgVars, encVars,
                   fsVars, inputVars, mainVars, handlerVars, exitVars,
                   sigMidDispatch, removedOnce, ffmpegCalls, outputWritten>>

\* upscale_frame, lines 87-97: the resizer ends.  Status 0: frame_i_up is
\* saved and upscale_frame returns.  Non-zero (always so when the directory
\* is gone): CalledProcessError, and the handler calls cleanup.
Finish(i) ==
    /\ pc \in {"wait", "join"}
    /\ task[i] = "running"
    /\ \/ /\ dirExists
          /\ files' = files \cup {UpFile(i)}
          /\ task' = [task EXCEPT ![i] = "ok"]
          /\ UNCHANGED <<wcl, failedAny, released>>
       \/ /\ task' = [task EXCEPT ![i] = "cleaning"]
          /\ wcl' = [wcl EXCEPT ![i] = ScanFrame]
          /\ failedAny' = TRUE
          /\ released' = TRUE
          /\ UNCHANGED files
    /\ UNCHANGED <<run, cfgVars, cmd, encVars,
                   dirExists, outputs, inputVars, mainVars, handlerVars,
                   exitVars, sigMidDispatch, removedOnce, ffmpegCalls, outputWritten>>

\* upscale_frame, lines 97-98 (and 103-104), one step of cleanup on a worker
\* thread.  When cleanup returns, sys.exit(1) raises SystemExit; when it
\* raises, the OSError leaves upscale_frame.  Either exception ends up in the
\* work item's future, which nothing reads.
WorkerCleanup(i) ==
    /\ pc \in {"wait", "join"}
    /\ task[i] = "cleaning"
    /\ LET r == CleanupStep(wcl[i]) IN
       /\ files' = r.files
       /\ dirExists' = r.dir
       /\ removedOnce' = (removedOnce \/ r.c.ph = "ret")
       /\ IF r.c.ph = "ret"
          THEN /\ task' = [task EXCEPT ![i] = "exited"]
               /\ wcl' = [wcl EXCEPT ![i] = IdleFrame]
          ELSE IF r.c.ph = "raised"
          THEN /\ task' = [task EXCEPT ![i] = "crashed"]
               /\ wcl' = [wcl EXCEPT ![i] = IdleFrame]
          ELSE /\ wcl' = [wcl EXCEPT ![i] = r.c]
               /\ UNCHANGED task
    /\ UNCHANGED <<run, cfgVars, cmd, encVars,
                   outputs, inputVars, mainVars, handlerVars, exitVars,
                   failedAny, sigMidDispatch, released, ffmpegCalls, outputWritten>>

----------------------------------------------------------------------------
\* SIGINT is delivered: Python calls signal_handler on the main thread before
\* the main thread's next step.
Signal ==
    /\ hpc = "idle"
    /\ pc \notin {"exit", "join"}
    /\ hpc' = "set"
    /\ sigMidDispatch' = (pc = "wait" /\ \E i \in Frames : ~Finished(i))
    /\ UNCHANGED <<run, cfgVars, cmd, encVars,
                   fsVars, inputVars, mainVars, workerVars, hcl, exc, exit_event,
                   exitVars, failedAny, released, removedOnce, ffmpegCalls, outputWritten>>

\* signal_handler, line 15: exit_event.set(); a NameError before line 22 has
\* bound exit_event.
HandlerSet ==
    /\ hpc = "set"
    /\ IF eventDefined
       THEN /\ exit_event' = TRUE
            /\ hpc' = "call"
            /\ UNCHANGED exc
       ELSE /\ exc' = "Error"
            /\ hpc' = "unwind"
            /\ UNCHANGED exit_event
    /\ UNCHANGED <<run, cfgVars, cmd, encVars,
                   fsVars, inputVars, mainVars, workerVars, hcl, exitVars, histVars>>

\* signal_handler, line 17: cleanup(temp_dir) is called; a NameError before
\* line 183 has bound temp_dir.
HandlerCall ==
    /\ hpc = "call"
    /\ IF tempDirDefined
       THEN /\ hcl' = ScanFrame
            /\ released' = TRUE
            /\ hpc' = "clean"
            /\ UNCHANGED exc
       ELSE /\ exc' = "Error"
            /\ hpc' = "unwind"
            /\ UNCHANGED <<hcl, released>>
    /\ UNCHANGED <<run, cfgVars, cmd, encVars,
                   fsVars, inputVars, mainVars, workerVars, exit_event, exitVars,
                   failedAny, sigMidDispatch, removedOnce, ffmpegCalls, outputWritten>>

\* signal_handler, lines 17-18, one step of cleanup: when it returns,
\* sys.exit(0) raises SystemExit; when it raises, the OSError leaves the
\* handler.
HandlerCleanup ==
    /\ hpc = "clean"
    /\ LET r == CleanupStep(hcl) IN
       /\ files' = r.files
       /\ dirExists' = r.dir
       /\ removedOnce' = (removedOnce \/ r.c.ph = "ret")
       /\ IF r.c.ph = "ret"
          THEN hcl' = IdleFrame /\ exc' = "SystemExit" /\ hpc' = "unwind"
          ELSE IF r.c.ph = "raised"
          THEN hcl' = IdleFrame /\ exc' = "Error" /\ hpc' = "unwind"
          ELSE hcl' = r.c /\ UNCHANGED <<exc, hpc>>
    /\ UNCHANGED <<run, cfgVars, cmd, encVars,
                   outputs, inputVars, mainVars, workerVars, exit_event, exitVars,
                   failedAny, sigMidDispatch, released, ffmpegCalls, outputWritten>>

\* The status the process ends with when the handler's exception reaches the
\* top of the main thread: SystemExit(0), or a traceback.
ExcCode == IF exc = "SystemExit" THEN 0 ELSE 1
ExcWhy == IF exc = "SystemExit" THEN "interrupt" ELSE "error"

\* The handler's exception propagates from the statement the main thread was
\* at.  Inside the with-block of upscale_frames (line 107) the executor's
\* __exit__ runs shutdown(wait=True) first.  Inside the try of encode_video
\* (lines 140-156) subprocess.run kills ffmpeg, which may have begun its
\* output file, and 'except Exception' catches everything but SystemExit, so
\* that encode_video returns and line 200 runs.  Anywhere else the process
\* ends.
Unwind ==
    /\ hpc = "unwind"
    /\ hpc' = "done"
    /\ IF pc = "wait"
       THEN /\ pc' = "join"
            /\ UNCHANGED <<exc, mcl, released, outputs, outputWritten, exitVars>>
       ELSE IF pc = "ffmpeg"
       THEN /\ \/ /\ outputs' = outputs \cup {out_filename}
                  /\ outputWritten' = TRUE
               \/ UNCHANGED <<outputs, outputWritten>>
            /\ IF exc = "Error"
               THEN /\ pc' = "final_cleanup"
                    /\ mcl' = ScanFrame
                    /\ released' = TRUE
                    /\ exc' = "none"
                    /\ UNCHANGED exitVars
               ELSE /\ Exit(ExcCode, ExcWhy)
                    /\ UNCHANGED <<exc, mcl, released>>
       ELSE /\ Exit(ExcCode, ExcWhy)
            /\ UNCHANGED <<exc, mcl, released, outputs, outputWritten>>
    /\ UNCHANGED <<run, cfgVars, cmd, encVars,
                   dirExists, files, inputVars, eventDefined, tempDirDefined,
                   count, total_frames, out_filename, workerVars, hcl, exit_event,
                   failedAny, sigMidDispatch, removedOnce, ffmpegCalls>>

\* ThreadPoolExecutor.__exit__: every work item has run; the handler's
\* exception then leaves the with-block and ends the process.
Join ==
    /\ pc = "join"
    /\ \A i \in Frames : Finished(i)
    /\ Exit(ExcCode, ExcWhy)
    /\ UNCHANGED <<run, cfgVars, cmd, encVars,
                   fsVars, inputVars, eventDefined, tempDirDefined, count,
                   total_frames, out_filename, mcl, workerVars, handlerVars, histVars>>

----------------------------------------------------------------------------
\* The script is run again, on the file system the last run left.
NextRun ==
    /\ pc = "exit"
    /\ run < MaxRuns
    /\ run' = run + 1
    /\ UNCHANGED fsVars
    /\ \E in \in Inputs :
          /\ videoExists' = in[1]
          /\ frameCount' = in[2]
    /\ pc' = "registered"
    /\ eventDefined' = FALSE
    /\ tempDirDefined' = FALSE
    /\ exit_event' = FALSE
    /\ count' = 0
    /\ total_frames' = 0
    /\ out_filename' = 0
    /\ task' = [i \in Frames |-> "none"]
    /\ wcl' = [i \in Frames |-> IdleFrame]
    /\ mcl' = IdleFrame
    /\ hcl' = IdleFrame
    /\ hpc' = "idle"
    /\ exc' = "none"
    /\ exitCode' = -1
    /\ exitWhy' = "running"
    /\ failedAny' = FALSE
    /\ sigMidDispatch' = FALSE
    /\ released' = FALSE
    /\ removedOnce' = FALSE
    /\ ffmpegCalls' = 0
    /\ outputWritten' = FALSE
    /\ scale_pct' = 0
    /\ magnification_factor' = 0
    /\ resolution' = <<0, 0>>
    /\ fps' = -1
    /\ cmd' = [i \in Frames |-> <<>>]
    /\ ffmpegFailed' = FALSE

MainStep ==
    \/ DefineEvent
    \/ check_dependencies
    \/ AssignTempDir
    \/ MakeDirs
    \/ extract_frames
    \/ ReadConfig
    \/ Submit
    \/ WaitDone
    \/ Naming
    \/ get_fps
    \/ Verify
    \/ InvokeFfmpeg
    \/ FfmpegExit
    \/ MainCleanup
    \/ ScriptEnd
    \/ Join

WorkerStep == \E i \in Frames : Launch(i) \/ Finish(i) \/ WorkerCleanup(i)

HandlerStep == HandlerSet \/ HandlerCall \/ HandlerCleanup \/ Unwind

\* Every step of one run but the arrival of the signal.
ProgramStep == MainStep \/ WorkerStep \/ HandlerStep

Next == ProgramStep \/ Signal \/ NextRun

Spec == Init /\ [][Next]_vars

\* The same, with the scheduling the program runs under: a thread that can
\* take a step (the main thread, the handler on it, a pool thread) takes one
\* in the end, and the external processes it waits for end.  The signal and
\* a further run of the script are the environment's and need not happen.
FairSpec == Spec /\ WF_vars(ProgramStep)

----------------------------------------------------------------------------
\* Vocabulary of the claims.

\* frame_{i}_up exists for every index of the run.
AllUpscaled == dirExists /\ \A i \in 0 .. (total_frames - 1) : UpFile(i) \in files

\* The staged files of a run of n frames whose every frame was upscaled.
ExpectedFiles(n) ==
    {RawFile(i) : i \in 0 .. (n - 1)} \cup {UpFile(i) : i \in 0 .. (n - 1)}

Exited == pc = "exit"
NoSignal == hpc = "idle"

\* C1: if an external resizer has ended non-zero (and no signal arrived), the
\* run goes on to its end (it is never stuck before the exit), the multiplexer
\* is never invoked, no output is written, and the staging directory does not
\* exist when the process has ended.
C1_UpscaleFailureEndsClean ==
    (failedAny /\ NoSignal) =>
        /\ ffmpegCalls = 0
        /\ ~outputWritten
        /\ Exited => ~dirExists
        /\ ~Exited => ENABLED ProgramStep

\* C1 witness: the run has ended after one resizer failed while another
\* frame's resizer succeeded.
C1_Witness ==
    /\ Exited /\ NoSignal /\ failedAny
    /\ \E i \in Frames : task[i] = "ok"
    /\ \E i \in Frames : task[i] \in {"exited", "crashed"}

\* C2: when SIGINT arrived while work items were queued or in flight, then
\* at the end of the process the staging directory and every staged file are
\* gone and no output file was written.
C2_InterruptRemovesStaging ==
    (Exited /\ sigMidDispatch) => (~dirExists /\ files = {} /\ ~outputWritten)

\* C3: a run that was interrupted by the signal ends with a non-zero status.
C3_InterruptExitsNonZero ==
    (Exited /\ ~NoSignal) => exitCode # 0

\* C4: once the handler has set exit_event, no queued work item starts its
\* resizer.
C4_NoLaunchAfterFlag ==
    [][exit_event => \A i \in Frames : task[i] = "queued" => task'[i] = "queued"]_vars

\* C5: once a resizer has ended non-zero, no queued work item starts its
\* resizer.
C5_NoLaunchAfterFailure ==
    [][failedAny => \A i \in Frames : task[i] = "queued" => task'[i] = "queued"]_vars

\* C6: the multiplexer is started only in a state where every frame_{i}_up
\* exists; and when the verifier runs with one missing, the main thread goes
\* nowhere but into cleanup and out of the process: no multiplexer, no output,
\* and no staging directory once the process has ended.
C6_NoReassemblyOverGaps ==
    [][ /\ (ffmpegCalls' > ffmpegCalls) => AllUpscaled
        /\ (pc = "verify" /\ ~AllUpscaled) => pc' \in {"verify", "verify_cleanup", "exit"}
        /\ (pc = "verify_cleanup") =>
              /\ pc' \in {"verify_cleanup", "exit"}
              /\ ffmpegCalls' = 0
              /\ ~outputWritten'
              /\ (pc' = "exit" => ~dirExists')
      ]_vars

\* C6 witness: the verifier found a frame missing in a directory that still
\* existed, the main thread's cleanup removed it, and the run ended on that
\* with no multiplexer started.
C6_Witness ==
    /\ Exited /\ exitWhy = "incomplete"
    /\ total_frames > 0
    /\ ffmpegCalls = 0

\* C7: when the process has ended on a fatal condition met after the staging
\* directory was created (input video missing, a frame not written, a resizer
\* failure, an incomplete frame set), the staging directory does not exist.
C7_FatalExitRemovesStaging ==
    (Exited /\ (exitWhy \in {"no_video", "extract", "incomplete"}
                   \/ (failedAny /\ NoSignal)))
        => ~dirExists

\* A cleanup call ends in an error in this step: on a worker thread, on the
\* main thread, in the signal handler.
CleanupRaises ==
    \/ \E i \in Frames : task[i] = "cleaning" /\ task'[i] = "crashed"
    \/ pc \in {"verify_cleanup", "final_cleanup"} /\ MainFree /\ exitWhy' = "error"
    \/ hpc = "clean" /\ exc' = "Error"

\* C8: once a cleanup has removed the staging directory, no cleanup call of
\* the run ends in an error.
C8_CleanupIdempotent ==
    [][removedOnce => ~CleanupRaises]_vars

\* C9: once cleanup has been called in a run, no work item starts its resizer
\* on frame_{i} or saves frame_{i}_up, and the main thread neither scans the
\* staging directory for missing frames nor starts the multiplexer.
C9_NoUseAfterRelease ==
    [][released =>
          /\ \A i \in Frames : task[i] = "queued" => task'[i] = "queued"
          /\ \A i \in Frames : task[i] = "running" => task'[i] # "ok"
          /\ pc = "verify" => pc' \in {"verify", "exit"}
          /\ ffmpegCalls' <= ffmpegCalls
      ]_vars

\* C10: in a run where every resizer ended with status 0 and no signal
\* arrived, the verifier finds nothing missing, and when it has passed the
\* staging directory holds exactly the raw and the upscaled file of each of
\* the total_frames frames.
C10_ExactStagedSet ==
    (~failedAny /\ NoSignal) =>
        /\ pc = "verify" => get_missing_frames(total_frames) = {}
        /\ pc = "build" => files = ExpectedFiles(total_frames)

\* C11: the staging directory is empty when extraction begins, in every run.
C11_FreshStagingDirectory ==
    (pc = "extract" /\ count = 0) => files = {}

C13_ExitCodes ==
    (Exited /\ NoSignal) =>
        /\ exitWhy = "ok" => exitCode = 0
        /\ exitWhy \in {"deps", "no_video", "extract", "incomplete"} => exitCode # 0
        /\ (~videoExists \/ failedAny) => exitCode # 0
        /\ exitCode = 0 => (exitWhy = "ok" /\ ffmpegCalls = 1 /\ ~failedAny)

\* C13 witness: a run without signal ended non-zero after a resizer failed.
C13_Witness ==
    /\ Exited /\ NoSignal
    /\ failedAny
    /\ exitCode = 1

\* The steps of a resizer command, by name.
Ops(c) == [k \in 1 .. Len(c) |-> c[k].op]

\* C14: the command of every launched frame has the secondary resize (to the
\* truncated products of the original width and height with the scale factor,
\* with the Lanczos filter) exactly when the scale factor differs from the
\* magnification factor; when they are equal it is load, the algorithm's
\* resize, save.
C14_SecondaryResizeIffFactorsDiffer ==
    \A i \in Frames :
        cmd[i] # <<>> =>
            LET c == cmd[i]
                equal == scale_pct = 100 * magnification_factor
            IN  /\ c[1] = [op |-> "/load", arg |-> <<RawFile(i)>>]
                /\ c[2].op = "/resize" /\ c[2].arg[3] = magnification_factor
                /\ c[Len(c)] = [op |-> "/save", arg |-> <<UpFile(i)>>]
                /\ equal => Ops(c) = <<"/load", "/resize", "/save">>
                /\ ~equal =>
                      /\ Ops(c) = <<"/load", "/resize", "/resize", "/save">>
                      /\ c[3].arg[2] = "Lanczos"
                      /\ \A d \in 1 .. 2 :
                            /\ 100 * c[3].arg[1][d] <= resolution[d] * scale_pct
                            /\ resolution[d] * scale_pct < 100 * (c[3].arg[1][d] + 1)

\* C14 witness: a frame was launched with the scale factor equal to the
\* magnification factor, and its command has three steps.
C14_Witness ==
    /\ scale_pct = 100 * magnification_factor
    /\ \E i \in Frames : cmd[i] # <<>> /\ Len(cmd[i]) = 3

\* C15: a run on an existing video of no frame, with its dependencies there
\* and no signal, goes through every stage: no work item exists and no
\* resizer command is built, the verifier reports nothing missing, no state
\* before the exit is stuck, and the process ends at the end of the script
\* with status 0, extraction having returned 0 and the staging directory
\* being removed.
C15_EmptyVideoCompletes ==
    (videoExists /\ frameCount = 0 /\ NoSignal /\ exitWhy # "deps") =>
        /\ \A i \in Frames : task[i] = "none" /\ cmd[i] = <<>>
        /\ pc # "verify_cleanup"
        /\ ~Exited => ENABLED ProgramStep
        /\ Exited =>
              /\ exitWhy = "ok" /\ exitCode = 0
              /\ total_frames = 0
              /\ ffmpegCalls = 1
              /\ ~dirExists

\* C15 witness: such a run has ended, ffmpeg having failed on the empty
\* frame sequence.
C15_Witness ==
    /\ Exited /\ NoSignal
    /\ videoExists /\ frameCount = 0
    /\ ffmpegFailed
    /\ exitCode = 0 /\ ~dirExists

\* C16: ffmpeg is never started with a frame rate of 0, and a run whose
\* probed frame rate is 0 ends (when no signal interrupts it) with a non-zero
\* status.
C16_ZeroFrameRateIsFatal ==
    /\ ffmpegCalls > 0 => fps # 0
    /\ (Exited /\ NoSignal /\ fps = 0) => exitCode # 0

\* C17: whenever the main thread is past upscale_frames (naming the output,
\* probing, scanning for missing frames, running ffmpeg, cleaning up), every
\* submitted work item is over: none is queued, running or in its cleanup.
C17_DispatcherJoinsAllWorkers ==
    pc \in {"naming", "encode", "verify", "build", "ffmpeg",
            "verify_cleanup", "final_cleanup", "end"} =>
        \A i \in Frames :
            /\ Finished(i)
            /\ i < total_frames => task[i] # "none"

\* C17 witness: the verifier is about to scan after two work items ended,
\* one of them in an error.
C17_Witness ==
    /\ pc = "verify"
    /\ total_frames = 2
    /\ \E i \in Frames : task[i] = "ok"
    /\ \E i \in Frames : task[i] \in {"exited", "crashed"}

\* C18: when ffmpeg has ended with a non-zero status (and no signal arrives),
\* the run still goes to the end of the script: no output was written, the
\* staging directory is removed and the status is 0.
C18_EncodeFailureNotFatal ==
    (ffmpegFailed /\ NoSignal) =>
        /\ ~outputWritten
        /\ pc \in {"final_cleanup", "end", "exit"}
        /\ Exited => (exitCode = 0 /\ ~dirExists)

\* C18 witness: a run of two upscaled frames has ended after ffmpeg failed.
C18_Witness ==
    /\ Exited /\ ffmpegFailed /\ NoSignal
    /\ total_frames = 2
    /\ exitCode = 0 /\ ~dirExists

\* The positions of the main thread, in the order of the script.
Stages ==
    << "registered", "deps", "assign", "mkdir", "extract", "config", "submit",
       "wait", "naming", "encode", "verify", "build", "ffmpeg", "final_cleanup",
       "end", "exit" >>

StageOf(p) == CHOOSE k \in 1 .. Len(Stages) : Stages[k] = p

\* No external invocation has failed and no signal has arrived in this run.
GoodRun ==
    /\ NoSignal
    /\ videoExists
    /\ ~failedAny /\ ~ffmpegFailed
    /\ exitWhy \notin {"deps", "extract"}

\* C19: every run ends; and as long as every external invocation succeeds
\* and no signal arrives, the main thread goes from each stage to the next
\* one of the script and to no other, and ends with every frame extracted and
\* upscaled, ffmpeg run exactly once, the output file written, the staging
\* directory removed and status 0.
C19_SuccessfulRunCompletes ==
    /\ (~Exited) ~> Exited
    /\ [][(run' = run /\ pc' # pc /\ GoodRun') =>
              (pc \in {Stages[k] : k \in 1 .. Len(Stages)}
               /\ pc' \in {Stages[k] : k \in 1 .. Len(Stages)}
               /\ StageOf(pc') = StageOf(pc) + 1)]_vars
    /\ []((Exited /\ GoodRun) =>
              /\ exitWhy = "ok" /\ exitCode = 0
              /\ total_frames = frameCount
              /\ \A i \in 0 .. (frameCount - 1) : task[i] = "ok"
              /\ ffmpegCalls = 1
              /\ outputWritten /\ out_filename \in outputs
              /\ ~dirExists)

\* C19 witness: a run on a two-frame video has ended with every invocation
\* having succeeded.
C19_Witness ==
    /\ Exited /\ GoodRun
    /\ frameCount = 2
    /\ outputWritten
    /\ exitCode = 0

\* C20: the signal handler never ends in an error: whenever it runs, temp_dir
\* and exit_event are bound and the directory it removes exists.
C20_HandlerNeverRaises ==
    exc # "Error"

====
